---- MODULE Spec2Model ----
(***************************************************************************)
(* Model of the LLMPerception plugin (src/main.py): the constructor, the   *)
(* five phrase functions and the on-LLM-request hook.                      *)
(*                                                                         *)
(* String literals: the module parser accepts ASCII only, so every Chinese *)
(* literal of the source is written in pinyin; the comment beside a        *)
(* literal gives the source's text.  The delimiters (" | ", ", ", "[",     *)
(* "]\n", ": ") are the source's own; the list comma of the almanac        *)
(* phrase (U+3001) is written ",".                                         *)
(***************************************************************************)
EXTENDS Integers, Sequences, FiniteSets, TLC

VARIABLES
    raw_config,                  \* the AstrBotConfig handed to __init__
    config,                      \* self.timezone, self.enable_*, self.holiday_country
    loaded,                      \* "new" | "loaded" | the exception __init__ raised
    log,                         \* logger calls, in order: <<level, tag>>
    CHINESE_CALENDAR_AVAILABLE,  \* module global, src/main.py:12-17
    LUNAR_CALENDAR_AVAILABLE,    \* module global, src/main.py:19-24
    clock,                       \* the host's wall clock: an index into Timeline
    pc,                          \* per request: where its hook invocation stands
    event,                       \* per request: the AstrMessageEvent
    req_prompt,                  \* per request: req.prompt
    frame,                       \* per request: the locals of the hook invocation
    calls,                       \* direct applications of the phrase functions
    entry                        \* per request: when and with what prompt its hook was entered

vars == <<raw_config, config, loaded, log, CHINESE_CALENDAR_AVAILABLE,
          LUNAR_CALENDAR_AVAILABLE, clock, pc, event, req_prompt, frame, calls, entry>>

-----------------------------------------------------------------------------
(* Bounds of the model *)

\* longest history of direct phrase-function calls (SpecCalls)
MaxCalls == 3

-----------------------------------------------------------------------------
(* Static tables, src/main.py:27-67 *)

\* 正月 二月 三月 四月 五月 六月 七月 八月 九月 十月 冬月 腊月
LUNAR_MONTHS ==
    <<"ZhengYue", "ErYue", "SanYue", "SiYue", "WuYue", "LiuYue",
      "QiYue", "BaYue", "JiuYue", "ShiYue", "DongYue", "LaYue">>

\* 初一 .. 初十, 十一 .. 二十, 廿一 .. 廿九, 三十
LUNAR_DAYS ==
    <<"ChuYi", "ChuEr", "ChuSan", "ChuSi", "ChuWu", "ChuLiu", "ChuQi", "ChuBa", "ChuJiu", "ChuShi",
      "ShiYi", "ShiEr", "ShiSan", "ShiSi", "ShiWu", "ShiLiu", "ShiQi", "ShiBa", "ShiJiu", "ErShi",
      "NianYi", "NianEr", "NianSan", "NianSi", "NianWu", "NianLiu", "NianQi", "NianBa", "NianJiu", "SanShi">>

\* 小寒 大寒 立春 雨水 惊蛰 春分 清明 谷雨 立夏 小满 芒种 夏至
\* 小暑 大暑 立秋 处暑 白露 秋分 寒露 霜降 立冬 小雪 大雪 冬至
SOLAR_TERMS ==
    <<"XiaoHan", "DaHan", "LiChun", "YuShui", "JingZhe", "ChunFen",
      "QingMing", "GuYu", "LiXia", "XiaoMan", "MangZhong", "XiaZhi",
      "XiaoShu", "DaShu", "LiQiu", "ChuShu", "BaiLu", "QiuFen",
      "HanLu", "ShuangJiang", "LiDong", "XiaoXue", "DaXue", "DongZhi">>

\* 甲 乙 丙 丁 戊 己 庚 辛 壬 癸
TIAN_GAN == <<"Jia", "Yi", "Bing", "Ding", "Wu", "Ji", "Geng", "Xin", "Ren", "Gui">>

\* 子 丑 寅 卯 辰 巳 午 未 申 酉 戌 亥
DI_ZHI == <<"Zi", "Chou", "Yin", "Mao", "Chen", "Si", "Wu", "Wei", "Shen", "You", "Xu", "Hai">>

\* 鼠 牛 虎 兔 龙 蛇 马 羊 猴 鸡 狗 猪
SHENG_XIAO == <<"Shu", "Niu", "Hu", "Tu", "Long", "She", "Ma", "Yang", "Hou", "Ji", "Gou", "Zhu">>

\* 祭祀 祈福 求嗣 开光 出行 解除 动土 起基 开市 交易 立券 挂匾
\* 安床 入宅 移徙 栽种 纳畜 入殓 安葬 启钻 除服 成服 修造 竖柱
YI_ITEMS ==
    <<"JiSi", "QiFu", "QiuSi", "KaiGuang", "ChuXing", "JieChu", "DongTu", "QiJi",
      "KaiShi", "JiaoYi", "LiQuan", "GuaBian", "AnChuang", "RuZhai", "YiXi", "ZaiZhong",
      "NaChu", "RuLian", "AnZang", "QiZuan", "ChuFu", "ChengFu", "XiuZao", "ShuZhu">>

\* 嫁娶 开市 安葬 动土 破土 作灶 安床 入宅 移徙 出行 祭祀 祈福 开光 纳采 订盟 造庙
JI_ITEMS ==
    <<"JiaQu", "KaiShi", "AnZang", "DongTu", "PoTu", "ZuoZao", "AnChuang", "RuZhai",
      "YiXi", "ChuXing", "JiSi", "QiFu", "KaiGuang", "NaCai", "DingMeng", "ZaoMiao">>

\* 周一 .. 周日
WEEKDAY_NAMES == <<"ZhouYi", "ZhouEr", "ZhouSan", "ZhouSi", "ZhouWu", "ZhouLiu", "ZhouRi">>

\* PLATFORM_DISPLAY_NAMES.get(platform_name, platform_name)
\* 微信公众号, 企业微信, 企业微信AI机器人
PLATFORM_DISPLAY_NAMES(platform_name) ==
    CASE platform_name = "aiocqhttp" -> "QQ"
      [] platform_name = "telegram" -> "Telegram"
      [] platform_name = "discord" -> "Discord"
      [] platform_name = "weixin_official_account" -> "WeiXinGongZhongHao"
      [] platform_name = "wecom" -> "QiYeWeiXin"
      [] platform_name = "wecom_ai_bot" -> "QiYeWeiXinAIJiQiRen"
      [] platform_name = "satori" -> "Satori"
      [] platform_name = "misskey" -> "Misskey"
      [] OTHER -> platform_name

-----------------------------------------------------------------------------
(* Python built-ins the source uses *)

\* sep.join(parts)
RECURSIVE Join(_, _)
Join(sep, parts) ==
    IF parts = <<>> THEN ""
    ELSE IF Len(parts) = 1 THEN parts[1]
    ELSE parts[1] \o sep \o Join(sep, Tail(parts))

\* the %m, %d, %H, %M, %S fields of strftime: two digits, zero padded
Pad2(n) == IF n < 10 THEN "0" \o ToString(n) ELSE ToString(n)

\* current_time.strftime("%Y-%m-%d %H:%M:%S"), for four-digit years
Strftime(t) ==
    ToString(t.year) \o "-" \o Pad2(t.month) \o "-" \o Pad2(t.day) \o " "
        \o Pad2(t.hour) \o ":" \o Pad2(t.minute) \o ":" \o Pad2(t.second)

IsLeapYear(y) == (y % 4 = 0 /\ y % 100 # 0) \/ y % 400 = 0

DaysInMonth(y, m) ==
    CASE m \in {4, 6, 9, 11} -> 30
      [] m = 2 -> IF IsLeapYear(y) THEN 29 ELSE 28
      [] OTHER -> 31

RECURSIVE DaysBeforeMonth(_, _)
DaysBeforeMonth(y, m) ==
    IF m = 1 THEN 0 ELSE DaysBeforeMonth(y, m - 1) + DaysInMonth(y, m - 1)

\* date.toordinal(): day 1 is 0001-01-01
ToOrdinal(y, m, d) ==
    (y - 1) * 365 + ((y - 1) \div 4) - ((y - 1) \div 100) + ((y - 1) \div 400)
        + DaysBeforeMonth(y, m) + d

\* datetime.weekday(): Monday is 0
Weekday(t) == (ToOrdinal(t.year, t.month, t.day) + 6) % 7

Abs(n) == IF n < 0 THEN 0 - n ELSE n

\* a value returned, or an exception raised
Return(v) == [exc |-> "", value |-> v]
Raise(e) == [exc |-> e, value |-> ""]

-----------------------------------------------------------------------------
(* _get_holiday_info, src/main.py:104-164 *)

\* TimePeriod with the upper ends of the buckets inclusive
TimePeriodInclusive(hour) ==
    IF 5 <= hour /\ hour <= 12 THEN "ShangWu"
    ELSE IF 12 <= hour /\ hour <= 14 THEN "ZhongWu"
    ELSE IF 14 <= hour /\ hour <= 18 THEN "XiaWu"
    ELSE IF 18 <= hour /\ hour <= 22 THEN "WanShang"
    ELSE "ShenYe"

\* the hour buckets, src/main.py:149-160: 上午 中午 下午 晚上 深夜
TimePeriod(hour) ==
    IF 5 <= hour /\ hour < 12 THEN "ShangWu"
    ELSE IF 12 <= hour /\ hour < 14 THEN "ZhongWu"
    ELSE IF 14 <= hour /\ hour < 18 THEN "XiaWu"
    ELSE IF 18 <= hour /\ hour < 22 THEN "WanShang"
    ELSE "ShenYe"

\* the chinese-calendar branch, src/main.py:117-141.  cal holds what the three
\* lookups of calendar_cn answer for current_date (each Return(..) or Raise(..));
\* the result is the fragment appended to info_parts, or the exception.
\* 周末(..) 法定节假日(..) 调休工作日 工作日 周末
CalendarPart(weekday, cal) ==
    IF cal.is_holiday.exc # "" THEN Raise(cal.is_holiday.exc)
    ELSE IF cal.is_workday.exc # "" THEN Raise(cal.is_workday.exc)
    ELSE IF cal.is_holiday.value THEN
        IF cal.get_holiday_detail.exc # "" THEN Raise(cal.get_holiday_detail.exc)
        ELSE LET holiday_detail == cal.get_holiday_detail.value
                 holiday_name == IF holiday_detail[2] # "" THEN holiday_detail[2]
                                 ELSE "FaDingJieJiaRi"
             IN  IF weekday >= 5 THEN Return("ZhouMo(" \o holiday_name \o ")")
                 ELSE Return("FaDingJieJiaRi(" \o holiday_name \o ")")
    ELSE IF cal.is_workday.value THEN
        IF weekday >= 5 THEN Return("TiaoXiuGongZuoRi") ELSE Return("GongZuoRi")
    ELSE Return("ZhouMo")

\* info_parts as it stands at src/main.py:163, or the exception raised on the way
HolidayParts(current_time, cal) ==
    LET weekday == Weekday(current_time)
        day_part ==
            IF config.holiday_country = "CN" /\ CHINESE_CALENDAR_AVAILABLE
            THEN CalendarPart(weekday, cal)
            ELSE IF weekday >= 5 THEN Return("ZhouMo") ELSE Return("GongZuoRi")
    IN  IF day_part.exc # "" THEN [exc |-> day_part.exc, value |-> <<>>]
        ELSE Return(<<WEEKDAY_NAMES[weekday + 1], day_part.value,
                      TimePeriod(current_time.hour)>>)

\* _get_holiday_info(self, current_time): Return(phrase) or Raise(exception)
_get_holiday_info(current_time, cal) ==
    IF ~config.enable_holiday THEN Return("")
    ELSE LET parts == HolidayParts(current_time, cal)
         IN  IF parts.exc # "" THEN Raise(parts.exc)
             ELSE Return(Join(", ", parts.value))

-----------------------------------------------------------------------------
(* _get_lunar_info, src/main.py:166-191 *)

\* conv is what Converter.Solar2Lunar answers for the date: Return(lunar date)
\* or Raise(..).  农历..年(..年).., 闰
_get_lunar_info(current_time, conv) ==
    IF ~config.enable_lunar \/ ~LUNAR_CALENDAR_AVAILABLE THEN ""
    ELSE IF conv.exc # "" THEN ""
    ELSE LET lunar == conv.value
             month_plain == LUNAR_MONTHS[lunar.month]
             day_str == LUNAR_DAYS[lunar.day]
             month_str == IF lunar.isleap THEN "Run" \o month_plain ELSE month_plain
             year_gan == TIAN_GAN[((lunar.year - 4) % 10) + 1]
             year_zhi == DI_ZHI[((lunar.year - 4) % 12) + 1]
             sheng_xiao == SHENG_XIAO[((lunar.year - 4) % 12) + 1]
         IN  "NongLi" \o year_gan \o year_zhi \o "Nian(" \o sheng_xiao \o "Nian)"
                 \o month_str \o day_str

-----------------------------------------------------------------------------
(* _get_solar_term_info, src/main.py:193-250 *)

solar_term_dates ==
    << <<1, 6>>, <<1, 20>>, <<2, 4>>, <<2, 19>>, <<3, 6>>, <<3, 21>>,
       <<4, 5>>, <<4, 20>>, <<5, 6>>, <<5, 21>>, <<6, 6>>, <<6, 21>>,
       <<7, 7>>, <<7, 23>>, <<8, 7>>, <<8, 23>>, <<9, 8>>, <<9, 23>>,
       <<10, 8>>, <<10, 23>>, <<11, 7>>, <<11, 22>>, <<12, 7>>, <<12, 22>> >>

\* NearScan with the window its comment announces (3 days) instead of 2
RECURSIVE NearScanThreeDays(_, _, _)
NearScanThreeDays(i, current_month, current_day) ==
    IF i > Len(solar_term_dates) THEN ""
    ELSE LET month == solar_term_dates[i][1]
             day == solar_term_dates[i][2]
         IN  IF current_month = month /\ Abs(current_day - day) <= 3
             THEN IF current_day = day THEN "JinRi" \o SOLAR_TERMS[i]
                  ELSE IF current_day < day THEN "LinJin" \o SOLAR_TERMS[i]
                  ELSE SOLAR_TERMS[i] \o "YiGuo"
             ELSE NearScanThreeDays(i + 1, current_month, current_day)

\* the first loop, src/main.py:220-227, from entry i on; "" when it falls
\* through.  今日X 临近X X已过
RECURSIVE NearScan(_, _, _)
NearScan(i, current_month, current_day) ==
    IF i > Len(solar_term_dates) THEN ""
    ELSE LET month == solar_term_dates[i][1]
             day == solar_term_dates[i][2]
         IN  IF current_month = month /\ Abs(current_day - day) <= 2
             THEN IF current_day = day THEN "JinRi" \o SOLAR_TERMS[i]
                  ELSE IF current_day < day THEN "LinJin" \o SOLAR_TERMS[i]
                  ELSE SOLAR_TERMS[i] \o "YiGuo"
             ELSE NearScan(i + 1, current_month, current_day)

\* BetweenScan without the year-boundary branch of src/main.py:240-242
RECURSIVE BetweenScanNoWrap(_, _, _)
BetweenScanNoWrap(i, current_month, current_day) ==
    IF i > Len(solar_term_dates) THEN ""
    ELSE LET next_i == (i % 24) + 1
             current_ordinal == current_month * 100 + current_day
             this_ordinal == solar_term_dates[i][1] * 100 + solar_term_dates[i][2]
             next_ordinal == solar_term_dates[next_i][1] * 100 + solar_term_dates[next_i][2]
         IN  IF this_ordinal <= current_ordinal /\ current_ordinal < next_ordinal
             THEN "DangQianJieQi: " \o SOLAR_TERMS[i]
             ELSE BetweenScanNoWrap(i + 1, current_month, current_day)

\* the second loop, src/main.py:230-245, from entry i on; "" is line 247.
\* 当前节气: X
RECURSIVE BetweenScan(_, _, _)
BetweenScan(i, current_month, current_day) ==
    IF i > Len(solar_term_dates) THEN ""
    ELSE LET next_i == (i % 24) + 1
             current_ordinal == current_month * 100 + current_day
             this_ordinal == solar_term_dates[i][1] * 100 + solar_term_dates[i][2]
             next_ordinal == solar_term_dates[next_i][1] * 100 + solar_term_dates[next_i][2]
             hit == IF next_ordinal < this_ordinal
                    THEN current_ordinal >= this_ordinal \/ current_ordinal < next_ordinal
                    ELSE this_ordinal <= current_ordinal /\ current_ordinal < next_ordinal
         IN  IF hit THEN "DangQianJieQi: " \o SOLAR_TERMS[i]
             ELSE BetweenScan(i + 1, current_month, current_day)

_get_solar_term_info(current_time) ==
    IF ~config.enable_solar_term \/ ~LUNAR_CALENDAR_AVAILABLE THEN ""
    ELSE LET near == NearScan(1, current_time.month, current_time.day)
         IN  IF near # "" THEN near
             ELSE BetweenScan(1, current_time.month, current_time.day)

-----------------------------------------------------------------------------
(* _get_almanac_info, src/main.py:252-284 *)

\* DayHash seeded with the hour as well as the date
DayHashOfDateTime(current_time) ==
    current_time.year * 10000 + current_time.month * 100 + current_time.day
        + current_time.hour

\* day_hash, src/main.py:259
DayHash(current_time) ==
    current_time.year * 10000 + current_time.month * 100 + current_time.day

\* the loops of src/main.py:272-276: count items of pool from start, by stride
RECURSIVE PickItems(_, _, _, _, _)
PickItems(pool, start, stride, count, i) ==
    IF i >= count THEN <<>>
    ELSE <<pool[((start + i * stride) % Len(pool)) + 1]>>
             \o PickItems(pool, start, stride, count, i + 1)

\* 宜: .. | 忌: ..
_get_almanac_info(current_time) ==
    IF ~config.enable_almanac THEN ""
    ELSE LET day_hash == DayHash(current_time)
             yi_count == (day_hash % 4) + 2
             ji_count == (day_hash % 3) + 2
             yi_start == day_hash % Len(YI_ITEMS)
             ji_start == (day_hash * 7) % Len(JI_ITEMS)
             yi_list == PickItems(YI_ITEMS, yi_start, 3, yi_count, 0)
             ji_list == PickItems(JI_ITEMS, ji_start, 5, ji_count, 0)
         IN  "Yi: " \o Join(",", yi_list) \o " | Ji: " \o Join(",", ji_list)

-----------------------------------------------------------------------------
(* The plugin after construction *)

\* the defaults of config.get, src/main.py:76-82
DefaultConfig ==
    [timezone |-> "Asia/Shanghai", enable_holiday |-> TRUE, enable_platform |-> TRUE,
     enable_lunar |-> TRUE, enable_solar_term |-> TRUE, enable_almanac |-> FALSE,
     holiday_country |-> "CN"]

\* the warnings of the two guarded imports, src/main.py:12-24
ImportLog(chinese, lunar) ==
    (IF chinese THEN <<>> ELSE <<"warning: chinese-calendar missing">>)
        \o (IF lunar THEN <<>> ELSE <<"warning: lunarcalendar missing">>)

Requests == {"r1", "r2"}

NoEvent == [kind |-> "none"]
NoFrame == [kind |-> "none"]
NotEntered == [clock |-> 0, prompt |-> "", overlapped |-> FALSE]

\* no request is being handled
HookIdle ==
    /\ clock = 1
    /\ pc = [r \in Requests |-> "absent"]
    /\ event = [r \in Requests |-> NoEvent]
    /\ req_prompt = [r \in Requests |-> ""]
    /\ frame = [r \in Requests |-> NoFrame]
    /\ entry = [r \in Requests |-> NotEntered]

\* the plugin constructed from cfg, with the two libraries present or not
Constructed(cfg, chinese, lunar) ==
    /\ raw_config = cfg
    /\ config = cfg
    /\ loaded = "loaded"
    /\ CHINESE_CALENDAR_AVAILABLE = chinese
    /\ LUNAR_CALENDAR_AVAILABLE = lunar
    /\ log = ImportLog(chinese, lunar) \o <<"info: plugin loaded">>

DateTime(y, mo, d, h, mi, s) ==
    [year |-> y, month |-> mo, day |-> d, hour |-> h, minute |-> mi, second |-> s]

SameDate(t, u) == t.year = u.year /\ t.month = u.month /\ t.day = u.day

-----------------------------------------------------------------------------
(* SpecSolar: _get_solar_term_info applied once to any day of a leap year *)

InitSolar ==
    /\ \E enabled \in BOOLEAN, lunar \in BOOLEAN :
           Constructed([DefaultConfig EXCEPT !.enable_solar_term = enabled], TRUE, lunar)
    /\ HookIdle
    /\ calls = <<>>

SolarTermQuery ==
    /\ calls = <<>>
    /\ \E mo \in 1..12 : \E d \in 1..DaysInMonth(2024, mo) : \E h \in {0, 23} :
           LET t == DateTime(2024, mo, d, h, 0, 0)
           IN  calls' = <<[fn |-> "solar_term", time |-> t,
                           out |-> _get_solar_term_info(t)]>>
    /\ UNCHANGED <<raw_config, config, loaded, log, CHINESE_CALENDAR_AVAILABLE,
                   LUNAR_CALENDAR_AVAILABLE, clock, pc, event, req_prompt, frame, entry>>

NextSolar == SolarTermQuery

SpecSolar == InitSolar /\ [][NextSolar]_vars

\* the four forms a phrase naming term i takes
TermForms(i) ==
    {"JinRi" \o SOLAR_TERMS[i], "LinJin" \o SOLAR_TERMS[i],
     SOLAR_TERMS[i] \o "YiGuo", "DangQianJieQi: " \o SOLAR_TERMS[i]}

\* the table entries of month mo within 2 days of day d
NearEntries(mo, d) ==
    {i \in 1..24 : solar_term_dates[i][1] = mo /\ Abs(d - solar_term_dates[i][2]) <= 2}

EntryOrdinal(i) == solar_term_dates[i][1] * 100 + solar_term_dates[i][2]

\* the entry whose date is the latest on or before (mo, d), in circular order
LatestEntryOnOrBefore(mo, d) ==
    LET before == {i \in 1..24 : EntryOrdinal(i) <= mo * 100 + d}
    IN  IF before = {} THEN 24
        ELSE CHOOSE i \in before : \A j \in before : EntryOrdinal(j) <= EntryOrdinal(i)

\* the phrase C9 states for (mo, d)
C9_Phrase(mo, d) ==
    IF NearEntries(mo, d) # {}
    THEN LET i == CHOOSE k \in NearEntries(mo, d) : TRUE
             day == solar_term_dates[i][2]
         IN  IF d = day THEN "JinRi" \o SOLAR_TERMS[i]
             ELSE IF d < day THEN "LinJin" \o SOLAR_TERMS[i]
             ELSE SOLAR_TERMS[i] \o "YiGuo"
    ELSE "DangQianJieQi: " \o SOLAR_TERMS[LatestEntryOnOrBefore(mo, d)]

-----------------------------------------------------------------------------
(* SpecCalls: _get_solar_term_info and _get_almanac_info applied in any      *)
(* order, up to MaxCalls times, to date-times around the turn of the year    *)

CallYears == {2024, 2025}
CallDays == {<<12, 30>>, <<1, 2>>}
CallHours == {0, 23}

CallTimes ==
    {DateTime(y, md[1], md[2], h, 0, 0) : y \in CallYears, md \in CallDays, h \in CallHours}

InitCalls ==
    /\ \E solar \in BOOLEAN, almanac \in BOOLEAN, lunar \in BOOLEAN :
           Constructed([DefaultConfig EXCEPT !.enable_solar_term = solar,
                                             !.enable_almanac = almanac], TRUE, lunar)
    /\ HookIdle
    /\ calls = <<>>

CallSolarTerm ==
    /\ Len(calls) < MaxCalls
    /\ \E t \in CallTimes :
           calls' = Append(calls, [fn |-> "solar_term", time |-> t,
                                   out |-> _get_solar_term_info(t)])
    /\ UNCHANGED <<raw_config, config, loaded, log, CHINESE_CALENDAR_AVAILABLE,
                   LUNAR_CALENDAR_AVAILABLE, clock, pc, event, req_prompt, frame, entry>>

CallAlmanac ==
    /\ Len(calls) < MaxCalls
    /\ \E t \in CallTimes :
           calls' = Append(calls, [fn |-> "almanac", time |-> t,
                                   out |-> _get_almanac_info(t)])
    /\ UNCHANGED <<raw_config, config, loaded, log, CHINESE_CALENDAR_AVAILABLE,
                   LUNAR_CALENDAR_AVAILABLE, clock, pc, event, req_prompt, frame, entry>>

NextCalls == CallSolarTerm \/ CallAlmanac

SpecCalls == InitCalls /\ [][NextCalls]_vars

\* the index of the term a solar-term phrase names; 0 when it names none
TermOf(phrase) ==
    IF \E i \in 1..24 : phrase \in TermForms(i)
    THEN CHOOSE i \in 1..24 : phrase \in TermForms(i)
    ELSE 0

\* two distinct terms that follow one another in the circular table
AdjacentTerms(i, j) ==
    /\ i # 0 /\ j # 0
    /\ (j = (i % 24) + 1 \/ i = (j % 24) + 1)

IsSolarCall(c, mo, d) == c.fn = "solar_term" /\ c.time.month = mo /\ c.time.day = d

\* C6 as stated: with the solar-term feature enabled, the queries of December 30
\* and January 2 resolve to adjacent terms of the table across the year boundary
\* (read in the claim's favour: the library that gates the feature is importable).
C6_AsStated ==
    \A i, j \in 1..Len(calls) :
        (config.enable_solar_term /\ LUNAR_CALENDAR_AVAILABLE
             /\ IsSolarCall(calls[i], 12, 30) /\ IsSolarCall(calls[j], 1, 2))
            => AdjacentTerms(TermOf(calls[i].out), TermOf(calls[j].out))

\* C6 (amended): with the solar-term feature enabled and the lunarcalendar
\* library importable, the queries of December 30 and January 2 both return a
\* phrase and both resolve to the SAME term, DongZhi (冬至), the last entry of
\* the table: the term in force between the adjacent entries 冬至 (Dec 22) and
\* 小寒 (Jan 6), which the scan finds by wrapping from entry 24 to entry 1.
C6_YearBoundary ==
    \A i, j \in 1..Len(calls) :
        (config.enable_solar_term /\ LUNAR_CALENDAR_AVAILABLE
             /\ IsSolarCall(calls[i], 12, 30) /\ IsSolarCall(calls[j], 1, 2))
            => /\ calls[i].out = "DangQianJieQi: DongZhi"
               /\ calls[j].out = "DangQianJieQi: DongZhi"
               /\ TermOf(calls[i].out) = 24
               /\ TermOf(calls[j].out) = 24

\* December 30 and then January 2 have been queried, with the feature on
C6_Witness ==
    /\ config.enable_solar_term /\ LUNAR_CALENDAR_AVAILABLE
    /\ Len(calls) >= 2
    /\ IsSolarCall(calls[1], 12, 30) /\ TermOf(calls[1].out) = 24
    /\ IsSolarCall(calls[2], 1, 2) /\ TermOf(calls[2].out) = 24

\* C7: any two applications of _get_almanac_info to date-times of the same
\* calendar date return the same phrase (the same auspicious and inauspicious
\* lists), whatever their hours and whatever was called in between.
C7_AlmanacPureInDate ==
    \A i, j \in 1..Len(calls) :
        (calls[i].fn = "almanac" /\ calls[j].fn = "almanac"
             /\ SameDate(calls[i].time, calls[j].time))
            => calls[i].out = calls[j].out

\* the almanac asked at 00:00 and at 23:00 of one date, another call in between
C7_Witness ==
    /\ config.enable_almanac
    /\ Len(calls) = 3
    /\ calls[1].fn = "almanac" /\ calls[3].fn = "almanac"
    /\ calls[2].fn = "solar_term"
    /\ SameDate(calls[1].time, calls[3].time)
    /\ calls[1].time.hour # calls[3].time.hour
    /\ calls[1].out # ""
    /\ calls[1].out = calls[3].out

-----------------------------------------------------------------------------
(* SpecHoliday: _get_holiday_info applied once, to every hour of a week, under *)
(* every answer of the holiday calendar                                       *)

\* what calendar_cn answers for a date it knows: (is_holiday, holiday name or "")
CalendarKnows(holiday, name) ==
    [is_holiday |-> Return(holiday), is_workday |-> Return(~holiday),
     get_holiday_detail |-> Return(<<holiday, name>>)]

\* a date outside the library's data: every lookup raises NotImplementedError
CalendarOutOfRange ==
    [is_holiday |-> Raise("NotImplementedError"), is_workday |-> Raise("NotImplementedError"),
     get_holiday_detail |-> Raise("NotImplementedError")]

CalendarAnswers ==
    {CalendarKnows(FALSE, ""), CalendarKnows(FALSE, "National Day"),
     CalendarKnows(TRUE, "National Day"), CalendarKnows(TRUE, ""),
     CalendarOutOfRange,
     [CalendarKnows(FALSE, "") EXCEPT !.is_workday = Raise("NotImplementedError")],
     [CalendarKnows(TRUE, "") EXCEPT !.get_holiday_detail = Raise("NotImplementedError")]}

\* the lookup of cal that the code reaches and that raises, if any
CalendarRaises(cal) ==
    \/ cal.is_holiday.exc # ""
    \/ cal.is_workday.exc # ""
    \/ (cal.is_holiday.value /\ cal.get_holiday_detail.exc # "")

InitHoliday ==
    /\ \E enabled \in BOOLEAN, country \in {"CN", "US"}, chinese \in BOOLEAN :
           Constructed([DefaultConfig EXCEPT !.enable_holiday = enabled,
                                             !.holiday_country = country], chinese, TRUE)
    /\ HookIdle
    /\ calls = <<>>

HolidayQuery ==
    /\ calls = <<>>
    /\ \E d \in 1..7 : \E h \in 0..23 : \E cal \in CalendarAnswers :
           LET t == DateTime(2024, 10, d, h, 30, 0)
           IN  calls' = <<[fn |-> "holiday", time |-> t, cal |-> cal,
                           info_parts |-> HolidayParts(t, cal).value,
                           out |-> _get_holiday_info(t, cal)]>>
    /\ UNCHANGED <<raw_config, config, loaded, log, CHINESE_CALENDAR_AVAILABLE,
                   LUNAR_CALENDAR_AVAILABLE, clock, pc, event, req_prompt, frame, entry>>

NextHoliday == HolidayQuery

SpecHoliday == InitHoliday /\ [][NextHoliday]_vars

\* C3: with the holiday feature enabled, country "CN" and the calendar loaded,
\* a raising calendar lookup makes _get_holiday_info return "" and never raise.
C3_HolidayFailsSoft ==
    \A k \in 1..Len(calls) :
        (calls[k].fn = "holiday" /\ config.enable_holiday /\ config.holiday_country = "CN"
             /\ CHINESE_CALENDAR_AVAILABLE /\ CalendarRaises(calls[k].cal))
            => calls[k].out = Return("")

\* the hours C8 gives each label
C8_Hours ==
    [ShangWu |-> 5..11, ZhongWu |-> 12..13, XiaWu |-> 14..17, WanShang |-> 18..21,
     ShenYe |-> (0..4) \cup (22..23)]

\* C8: with the holiday feature enabled, the phrase _get_holiday_info returns
\* ends in exactly one time-period label, and for every hour 0..23 it is the
\* label whose range holds the hour: 5..11, 12..13, 14..17, 18..21, the rest.
C8_HourBuckets ==
    \A k \in 1..Len(calls) :
        (calls[k].fn = "holiday" /\ config.enable_holiday /\ calls[k].out.exc = "")
            => LET parts == calls[k].info_parts
                   h == calls[k].time.hour
               IN  /\ calls[k].out.value = Join(", ", parts)
                   /\ Cardinality({n \in 1..Len(parts) : parts[n] \in DOMAIN C8_Hours}) = 1
                   /\ parts[Len(parts)] \in DOMAIN C8_Hours
                   /\ \A label \in DOMAIN C8_Hours :
                          (parts[Len(parts)] = label) <=> (h \in C8_Hours[label])

\* the phrase of a boundary hour has been returned: 12:30 is noon, 中午
C8_Witness ==
    /\ config.enable_holiday
    /\ Len(calls) = 1 /\ calls[1].fn = "holiday"
    /\ calls[1].time.hour = 12
    /\ calls[1].out.exc = ""
    /\ calls[1].info_parts[3] = "ZhongWu"

-----------------------------------------------------------------------------
(* __init__, src/main.py:72-102 *)

ConfigKeys ==
    {"timezone", "enable_holiday_perception", "enable_platform_perception",
     "enable_lunar_perception", "enable_solar_term_perception",
     "enable_almanac_perception", "holiday_country"}

\* zone names of the zone database
KnownZones == {"Asia/Shanghai", "UTC", "America/New_York"}

\* keys zoneinfo refuses before any lookup: empty, absolute, or leaving TZPATH
MalformedZoneKeys == {"", "/etc/localtime", "../UTC"}

\* zoneinfo.ZoneInfo(key) as the standard library answers: the zone, ValueError
\* for a key that is not a normalized relative path, ZoneInfoNotFoundError (a
\* KeyError) for a well-formed key that names no zone
ZoneInfo(key) ==
    IF key \in KnownZones THEN Return(key)
    ELSE IF key \in MalformedZoneKeys THEN Raise("ValueError")
    ELSE Raise("ZoneInfoNotFoundError")

\* the exceptions the except clause of src/main.py:87 names
CaughtByInit == {"ZoneInfoNotFoundError", "KeyError"}

\* config.get(key, default) on raw (present: the keys the file sets)
ConfigGet(raw, key, field, default) ==
    IF key \in raw.present THEN raw.values[field] ELSE default

\* self before __init__ has run
Unconstructed ==
    [timezone |-> "unset", enable_holiday |-> FALSE, enable_platform |-> FALSE,
     enable_lunar |-> FALSE, enable_solar_term |-> FALSE, enable_almanac |-> FALSE,
     holiday_country |-> "unset"]

RawConfigs ==
    [present : {ConfigKeys, {"timezone"}, {}},
     values : [timezone : KnownZones \cup MalformedZoneKeys \cup {"Mars/Phobos"},
               enable_holiday : BOOLEAN, enable_platform : BOOLEAN,
               enable_lunar : {TRUE}, enable_solar_term : {TRUE},
               enable_almanac : BOOLEAN, holiday_country : {"CN", "US"}]]

InitNew ==
    /\ raw_config \in RawConfigs
    /\ config = Unconstructed
    /\ loaded = "new"
    /\ CHINESE_CALENDAR_AVAILABLE \in BOOLEAN
    /\ LUNAR_CALENDAR_AVAILABLE = TRUE
    /\ log = ImportLog(CHINESE_CALENDAR_AVAILABLE, LUNAR_CALENDAR_AVAILABLE)
    /\ HookIdle
    /\ calls = <<>>

\* MyPlugin.__init__(context, config)
Construct ==
    /\ loaded = "new"
    /\ LET timezone_name == ConfigGet(raw_config, "timezone", "timezone", "Asia/Shanghai")
           attrs == [Unconstructed EXCEPT
                       !.enable_holiday = ConfigGet(raw_config, "enable_holiday_perception", "enable_holiday", TRUE),
                       !.enable_platform = ConfigGet(raw_config, "enable_platform_perception", "enable_platform", TRUE),
                       !.enable_lunar = ConfigGet(raw_config, "enable_lunar_perception", "enable_lunar", TRUE),
                       !.enable_solar_term = ConfigGet(raw_config, "enable_solar_term_perception", "enable_solar_term", TRUE),
                       !.enable_almanac = ConfigGet(raw_config, "enable_almanac_perception", "enable_almanac", FALSE),
                       !.holiday_country = ConfigGet(raw_config, "holiday_country", "holiday_country", "CN")]
           zone == ZoneInfo(timezone_name)
       IN  IF zone.exc = ""
           THEN /\ config' = [attrs EXCEPT !.timezone = zone.value]
                /\ log' = log \o <<"info: plugin loaded">>
                /\ loaded' = "loaded"
           ELSE IF zone.exc \in CaughtByInit
           THEN /\ config' = [attrs EXCEPT !.timezone = ZoneInfo("Asia/Shanghai").value]
                /\ log' = log \o <<"error: invalid timezone", "info: plugin loaded">>
                /\ loaded' = "loaded"
           ELSE \* the exception leaves __init__: self.timezone is never assigned
                /\ config' = attrs
                /\ log' = log
                /\ loaded' = zone.exc
    /\ UNCHANGED <<raw_config, CHINESE_CALENDAR_AVAILABLE, LUNAR_CALENDAR_AVAILABLE,
                   clock, pc, event, req_prompt, frame, calls, entry>>

NextInit == Construct

SpecInit == InitNew /\ [][NextInit]_vars

\* the timezone value __init__ reads is not one the zone database accepts
InvalidTimezone ==
    ZoneInfo(ConfigGet(raw_config, "timezone", "timezone", "Asia/Shanghai")).exc # ""

\* C5: for every invalid timezone value, construction completes, an error is
\* logged, and the plugin's time zone is the default Asia/Shanghai.
C5_InvalidTimezoneFallsBack ==
    (loaded # "new" /\ InvalidTimezone)
        => /\ loaded = "loaded"
           /\ config.timezone = "Asia/Shanghai"
           /\ \E k \in 1..Len(log) : log[k] = "error: invalid timezone"

\* what the code does achieve: a well-formed key naming no zone falls back
InitFallbackOnUnknownZone ==
    (loaded # "new" /\ ZoneInfo(ConfigGet(raw_config, "timezone", "timezone", "Asia/Shanghai")).exc
                           \in CaughtByInit)
        => /\ loaded = "loaded"
           /\ config.timezone = "Asia/Shanghai"
           /\ \E k \in 1..Len(log) : log[k] = "error: invalid timezone"

-----------------------------------------------------------------------------
(* The host: its clock, the two calendar libraries, the events it delivers *)

\* the instants datetime.now(self.timezone) can return, in order
Timeline ==
    <<DateTime(2024, 10, 1, 9, 5, 7),       \* National Day 2024, a Tuesday
      DateTime(2025, 7, 26, 23, 59, 59),    \* a Saturday in the leap sixth lunar month
      DateTime(2027, 1, 1, 0, 0, 0),        \* past the holiday data of chinese-calendar
      DateTime(2101, 1, 1, 18, 30, 0)>>     \* past the range of lunarcalendar too

\* calendar_cn's three lookups for the date of t: the library raises
\* NotImplementedError for a year outside its data
calendar_cn(t) ==
    IF t.year > 2026 THEN CalendarOutOfRange
    ELSE IF t.year = 2024 /\ t.month = 10 /\ t.day \in 1..7 THEN CalendarKnows(TRUE, "National Day")
    ELSE CalendarKnows(Weekday(t) >= 5, "")

\* Converter.Solar2Lunar(Solar(y, m, d)) for the dates of Timeline
Solar2Lunar(t) ==
    CASE t.year = 2024 /\ t.month = 10 /\ t.day = 1 ->
             Return([year |-> 2024, month |-> 8, day |-> 29, isleap |-> FALSE])
      [] t.year = 2025 /\ t.month = 7 /\ t.day = 26 ->
             Return([year |-> 2025, month |-> 6, day |-> 2, isleap |-> TRUE])
      [] t.year = 2027 /\ t.month = 1 /\ t.day = 1 ->
             Return([year |-> 2026, month |-> 11, day |-> 24, isleap |-> FALSE])
      [] OTHER -> Raise("DateNotExist")

\* str.strip() and str.upper() on the group names the events carry
Strip(name) ==
    CASE name = " Team " -> "Team"
      [] name = "   " -> ""
      [] OTHER -> name

Upper(name) ==
    CASE name = "n/a" -> "N/A"
      [] name = "Devs" -> "DEVS"
      [] name = "Team" -> "TEAM"
      [] OTHER -> name

\* _clean_group_name, src/main.py:286-296; None is ""
_clean_group_name(name) ==
    IF name = "" THEN ""
    ELSE LET candidate == Strip(name)
         IN  IF candidate = "" THEN ""
             ELSE IF Upper(candidate) \in {"N/A", "NONE", "NULL", "UNKNOWN"} THEN ""
             ELSE candidate

\* An AstrMessageEvent as the plugin reads it.
\*   platform_name                 get_platform_name()
\*   has_get_message_type          hasattr(event, "get_message_type")
\*   message_type                  get_message_type()
\*   has_get_group_id, group_id    hasattr(event, "get_group_id"), get_group_id()
\*   message_obj                   "present", "None", or "missing" (no attribute)
\*   obj_type, obj_group_id        message_obj.type, message_obj.group_id
\*   cached_group_name             message_obj.group.group_name ("": no group object or no name)
\*   has_message, message          hasattr(message_obj, "message"), the segment types
\*   get_group                     callable or not, and what awaiting it gives:
\*                                 Return(group name, "" for None) or Raise(..)
\*   raises                        the accessor that raises when called, or "none"
BaseEvent ==
    [kind |-> "event", platform_name |-> "aiocqhttp",
     has_get_message_type |-> TRUE, message_type |-> "GROUP_MESSAGE",
     has_get_group_id |-> TRUE, group_id |-> "1001",
     message_obj |-> "present", obj_type |-> "GROUP_MESSAGE", obj_group_id |-> "1001",
     cached_group_name |-> "", has_message |-> TRUE, message |-> <<"text">>,
     get_group |-> [callable |-> TRUE, reply |-> Return(" Team ")],
     raises |-> "none"]

\* a group chat whose name the platform must be asked for, and answers
GroupFetchOk == [BaseEvent EXCEPT !.message = <<"text", "image">>]

\* a group chat whose group-info fetch raises; the message carries all media
GroupFetchRaises ==
    [BaseEvent EXCEPT !.get_group = [callable |-> TRUE, reply |-> Raise("TimeoutError")],
                      !.message = <<"image", "voice", "video">>]

\* a group chat whose name is already on the event
GroupCached ==
    [BaseEvent EXCEPT !.platform_name = "kook", !.cached_group_name = "Devs",
                      !.message = <<"audio">>]

\* a placeholder on the event, and a placeholder from the platform
GroupPlaceholder ==
    [BaseEvent EXCEPT !.cached_group_name = "n/a",
                      !.get_group = [callable |-> TRUE, reply |-> Return("UNKNOWN")]]

\* the platform knows no such group: get_group returns None
GroupFetchNone ==
    [BaseEvent EXCEPT !.get_group = [callable |-> TRUE, reply |-> Return("")],
                      !.message = <<"video">>]

PrivateChat ==
    [BaseEvent EXCEPT !.platform_name = "telegram", !.message_type = "FRIEND_MESSAGE",
                      !.obj_type = "FRIEND_MESSAGE", !.group_id = "", !.obj_group_id = ""]

\* neither group nor friend message, with a group id: a group chat by fallback;
\* the event has no callable get_group
OtherWithGroupId ==
    [BaseEvent EXCEPT !.message_type = "OTHER_MESSAGE", !.obj_type = "OTHER_MESSAGE",
                      !.get_group = [callable |-> FALSE, reply |-> Return("")]]

\* neither group nor friend message, no group id, no message object
OtherBare ==
    [BaseEvent EXCEPT !.platform_name = "discord", !.message_type = "OTHER_MESSAGE",
                      !.group_id = "", !.message_obj = "None", !.obj_group_id = ""]

\* an event without the two accessors: the message object is read instead
DuckTyped ==
    [BaseEvent EXCEPT !.has_get_message_type = FALSE, !.has_get_group_id = FALSE,
                      !.obj_type = "OTHER_MESSAGE", !.message = <<"voice">>]

\* events one of whose accessors raises
PlatformNameRaises == [PrivateChat EXCEPT !.raises = "get_platform_name"]
MessageTypeRaises == [GroupCached EXCEPT !.raises = "get_message_type"]
GroupIdRaises == [GroupFetchOk EXCEPT !.raises = "get_group_id"]
NoMessageObj == [PrivateChat EXCEPT !.message_obj = "missing"]

Events ==
    {GroupFetchOk, GroupFetchRaises, GroupCached, GroupPlaceholder, GroupFetchNone,
     PrivateChat, OtherWithGroupId, OtherBare, DuckTyped,
     PlatformNameRaises, MessageTypeRaises, GroupIdRaises, NoMessageObj}

-----------------------------------------------------------------------------
(* _get_group_name and _get_platform_info, src/main.py:298-386 *)

\* the outcome of a stretch of code that may raise or reach the await
Step(exc, value, await) == [exc |-> exc, value |-> value, await |-> await]

\* event.get_group_id() or message_obj.group_id, src/main.py:311-315, 358-362
GroupIdOf(e) ==
    IF e.has_get_group_id
    THEN IF e.raises = "get_group_id" THEN Raise("RuntimeError") ELSE Return(e.group_id)
    ELSE IF e.message_obj = "present" THEN Return(e.obj_group_id)
    ELSE Return("")

\* _get_group_name up to its await, src/main.py:300-320: the name found on the
\* event, "" for None, or await = TRUE when get_group is about to be awaited
GroupNameBeforeAwait(e) ==
    LET cached == IF e.message_obj = "present" THEN _clean_group_name(e.cached_group_name)
                  ELSE ""
    IN  IF cached # "" THEN Step("", cached, FALSE)
        ELSE IF ~e.get_group.callable THEN Step("", "", FALSE)
        ELSE LET group_id == GroupIdOf(e)
             IN  IF group_id.exc # "" THEN Step(group_id.exc, "", FALSE)
                 ELSE IF group_id.value = "" THEN Step("", "", FALSE)
                 ELSE Step("", "", TRUE)

\* GroupNameAfterAwait without the try/except of src/main.py:320-324
GroupNameAfterAwaitUncaught(reply) ==
    IF reply.exc # "" THEN [exc |-> reply.exc, value |-> "", log |-> <<>>]
    ELSE [exc |-> "", value |-> _clean_group_name(reply.value), log |-> <<>>]

\* _get_group_name from the await on, src/main.py:320-330: reply is what the
\* awaited get_group gave
GroupNameAfterAwait(reply) ==
    IF reply.exc # "" THEN [exc |-> "", value |-> "", log |-> <<"debug: get_group failed">>]
    ELSE [exc |-> "", value |-> _clean_group_name(reply.value), log |-> <<>>]

\* _get_platform_info up to the call of _get_group_name, src/main.py:337-366:
\* info_parts and is_group_chat.  平台: .., 群聊, 私聊
PlatformHead(e) ==
    IF e.raises = "get_platform_name" THEN [exc |-> "RuntimeError", info_parts |-> <<>>, is_group_chat |-> FALSE]
    ELSE IF e.has_get_message_type /\ e.raises = "get_message_type"
    THEN [exc |-> "RuntimeError", info_parts |-> <<>>, is_group_chat |-> FALSE]
    ELSE LET platform_display == PLATFORM_DISPLAY_NAMES(e.platform_name)
             parts == <<"PingTai: " \o platform_display>>
             message_type == IF e.has_get_message_type THEN e.message_type
                             ELSE IF e.message_obj = "present" THEN e.obj_type
                             ELSE "None"
         IN  IF message_type = "GROUP_MESSAGE"
             THEN [exc |-> "", info_parts |-> Append(parts, "QunLiao"), is_group_chat |-> TRUE]
             ELSE IF message_type = "FRIEND_MESSAGE"
             THEN [exc |-> "", info_parts |-> Append(parts, "SiLiao"), is_group_chat |-> FALSE]
             ELSE LET group_id == GroupIdOf(e)
                  IN  IF group_id.exc # ""
                      THEN [exc |-> group_id.exc, info_parts |-> <<>>, is_group_chat |-> FALSE]
                      ELSE IF group_id.value # ""
                      THEN [exc |-> "", info_parts |-> Append(parts, "QunLiao"), is_group_chat |-> TRUE]
                      ELSE [exc |-> "", info_parts |-> parts, is_group_chat |-> FALSE]

\* src/main.py:369-370.  群名: ..
WithGroupName(info_parts, group_name) ==
    IF group_name # "" THEN Append(info_parts, "QunMing: " \o group_name) ELSE info_parts

\* the media flags, src/main.py:375-384.  含图片 含语音 含视频
MediaFlags(message) ==
    LET has_image == \E n \in 1..Len(message) : message[n] = "image"
        has_audio == \E n \in 1..Len(message) : message[n] \in {"voice", "audio"}
        has_video == \E n \in 1..Len(message) : message[n] = "video"
    IN  (IF has_image THEN <<"HanTuPian">> ELSE <<>>)
            \o (IF has_audio THEN <<"HanYuYin">> ELSE <<>>)
            \o (IF has_video THEN <<"HanShiPin">> ELSE <<>>)

\* _get_platform_info from the message scan on, src/main.py:372-386
PlatformTail(e, info_parts) ==
    IF e.message_obj = "missing" THEN Raise("AttributeError")
    ELSE IF e.message_obj = "present" /\ e.has_message
    THEN Return(Join(", ", info_parts \o MediaFlags(e.message)))
    ELSE Return(Join(", ", info_parts))

-----------------------------------------------------------------------------
(* my_custom_hook_1, src/main.py:388-430 *)

\* "if x_info: perception_parts.append(x_info)"
AppendIfAny(parts, info) == IF info # "" THEN Append(parts, info) ELSE parts

\* the prompt as src/main.py:425-428 rewrites it
Rewrite(perception_parts, prompt) ==
    "[" \o Join(" | ", perception_parts) \o "]\n" \o prompt

\* the locals of an invocation that has not produced anything yet
NewFrame(t, prompt) ==
    [kind |-> "hook", current_time |-> t, prior_prompt |-> prompt,
     holiday_info |-> "", lunar_info |-> "", solar_term_info |-> "", almanac_info |-> "",
     info_parts |-> <<>>, platform_info |-> "", perception_parts |-> <<>>,
     fetches |-> 0, fetch_raised |-> FALSE, exc |-> ""]

Raised(fr, exc, logged) == [status |-> "raised", frame |-> [fr EXCEPT !.exc = exc], log |-> logged]

\* from the message scan of _get_platform_info to the end of the hook,
\* src/main.py:372-386 and 421-430
HookFinish(e, fr, info_parts, logged) ==
    LET tail == PlatformTail(e, info_parts)
    IN  IF tail.exc # "" THEN Raised([fr EXCEPT !.info_parts = info_parts], tail.exc, logged)
        ELSE [status |-> "done",
              frame |-> [fr EXCEPT !.info_parts = info_parts,
                                   !.platform_info = tail.value,
                                   !.perception_parts = AppendIfAny(fr.perception_parts, tail.value)],
              log |-> logged \o <<"info: perception added">>]

\* the hook from its entry to its end or to the await of get_group,
\* src/main.py:391-420 with _get_platform_info and _get_group_name inlined
HookBegin(e, t, prompt) ==
    LET fr0 == NewFrame(t, prompt)
        timestr == Strftime(t)
        holiday == _get_holiday_info(t, calendar_cn(t))
    IN  IF holiday.exc # "" THEN Raised(fr0, holiday.exc, <<>>)
        ELSE
        LET conv == Solar2Lunar(t)
            lunar_info == _get_lunar_info(t, conv)
            lunar_log == IF config.enable_lunar /\ LUNAR_CALENDAR_AVAILABLE /\ conv.exc # ""
                         THEN <<"debug: lunar failed">> ELSE <<>>
            solar_term_info == _get_solar_term_info(t)
            almanac_info == _get_almanac_info(t)
            parts == AppendIfAny(AppendIfAny(AppendIfAny(AppendIfAny(
                         <<"FaSongShiJian: " \o timestr>>,
                         holiday.value), lunar_info), solar_term_info), almanac_info)
            fr == [fr0 EXCEPT !.holiday_info = holiday.value, !.lunar_info = lunar_info,
                              !.solar_term_info = solar_term_info,
                              !.almanac_info = almanac_info, !.perception_parts = parts]
        IN  IF ~config.enable_platform
            THEN [status |-> "done", frame |-> fr,
                  log |-> lunar_log \o <<"info: perception added">>]
            ELSE
            LET head == PlatformHead(e)
            IN  IF head.exc # "" THEN Raised(fr, head.exc, lunar_log)
                ELSE IF ~head.is_group_chat THEN HookFinish(e, fr, head.info_parts, lunar_log)
                ELSE
                LET name == GroupNameBeforeAwait(e)
                IN  IF name.exc # ""
                    THEN Raised([fr EXCEPT !.info_parts = head.info_parts], name.exc, lunar_log)
                    ELSE IF name.await
                    THEN [status |-> "await",
                          frame |-> [fr EXCEPT !.info_parts = head.info_parts, !.fetches = 1],
                          log |-> lunar_log]
                    ELSE HookFinish(e, fr, WithGroupName(head.info_parts, name.value), lunar_log)

\* the hook from the reply of the awaited get_group to its end
HookResume(e, fr) ==
    LET reply == e.get_group.reply
        name == GroupNameAfterAwait(reply)
        resumed == [fr EXCEPT !.fetch_raised = (reply.exc # "")]
    IN  IF name.exc # "" THEN Raised(resumed, name.exc, name.log)
        ELSE HookFinish(e, resumed, WithGroupName(fr.info_parts, name.value), name.log)

\* SavedFrame with the locals kept in one slot of the plugin object: an
\* invocation resuming while another is suspended finds the other's
SharedFrame(r) ==
    LET others == {q \in Requests \ {r} : pc[q] = "await"}
    IN  IF others # {} THEN frame[CHOOSE q \in others : TRUE] ELSE frame[r]

\* the locals a suspended invocation finds when it resumes: its own
SavedFrame(r) == frame[r]

\* the effect of an invocation's stretch on the state
Apply(r, out) ==
    /\ pc' = [pc EXCEPT ![r] = out.status]
    /\ frame' = [frame EXCEPT ![r] = out.frame]
    /\ log' = log \o out.log
    /\ req_prompt' = IF out.status = "done"
                     THEN [req_prompt EXCEPT ![r] = Rewrite(out.frame.perception_parts, req_prompt[r])]
                     ELSE req_prompt

\* the host calls the hook for request r: it runs to its end, to an exception,
\* or to the await of get_group
HookEnter(r) ==
    /\ pc[r] = "ready"
    /\ Apply(r, HookBegin(event[r], Timeline[clock], req_prompt[r]))
    /\ entry' = [entry EXCEPT ![r] = [clock |-> clock, prompt |-> req_prompt[r],
                                      overlapped |-> \E q \in Requests : pc[q] = "await"]]
    /\ UNCHANGED <<raw_config, config, loaded, CHINESE_CALENDAR_AVAILABLE,
                   LUNAR_CALENDAR_AVAILABLE, clock, event, calls>>

\* the awaited get_group answers (or raises) and the invocation runs to its end
FetchResume(r) ==
    /\ pc[r] = "await"
    /\ Apply(r, HookResume(event[r], SavedFrame(r)))
    /\ UNCHANGED <<raw_config, config, loaded, CHINESE_CALENDAR_AVAILABLE,
                   LUNAR_CALENDAR_AVAILABLE, clock, event, calls, entry>>

\* time passes
Tick ==
    /\ clock < Len(Timeline)
    /\ clock' = clock + 1
    /\ UNCHANGED <<raw_config, config, loaded, log, CHINESE_CALENDAR_AVAILABLE,
                   LUNAR_CALENDAR_AVAILABLE, pc, event, req_prompt, frame, calls, entry>>

Next ==
    \/ \E r \in Requests : HookEnter(r)
    \/ \E r \in Requests : FetchResume(r)
    \/ Tick

AllConfigs ==
    [timezone : {"Asia/Shanghai"}, enable_holiday : BOOLEAN, enable_platform : BOOLEAN,
     enable_lunar : BOOLEAN, enable_solar_term : BOOLEAN, enable_almanac : BOOLEAN,
     holiday_country : {"CN", "US"}]

\* Spec: one request, any configuration, any event, either library present or not
Init ==
    /\ \E cfg \in AllConfigs, chinese \in BOOLEAN, lunar \in BOOLEAN :
           Constructed(cfg, chinese, lunar)
    /\ clock = 1
    /\ pc = [r \in Requests |-> IF r = "r1" THEN "ready" ELSE "absent"]
    /\ \E e \in Events : event = [r \in Requests |-> IF r = "r1" THEN e ELSE NoEvent]
    /\ req_prompt = [r \in Requests |-> IF r = "r1" THEN "hello" ELSE ""]
    /\ frame = [r \in Requests |-> NoFrame]
    /\ entry = [r \in Requests |-> NotEntered]
    /\ calls = <<>>

Spec == Init /\ [][Next]_vars

\* SpecConc: two requests in flight at once, both libraries present
ConcEvents == {GroupFetchOk, GroupFetchRaises, GroupCached, PrivateChat, GroupIdRaises}

InitConc ==
    /\ \E cfg \in AllConfigs : Constructed(cfg, TRUE, TRUE)
    /\ clock = 1
    /\ pc = [r \in Requests |-> "ready"]
    /\ event \in [Requests -> ConcEvents]
    /\ req_prompt = [r \in Requests |-> IF r = "r1" THEN "hello" ELSE "[quoted]\nsecond"]
    /\ frame = [r \in Requests |-> NoFrame]
    /\ entry = [r \in Requests |-> NotEntered]
    /\ calls = <<>>

SpecConc == InitConc /\ [][Next]_vars

-----------------------------------------------------------------------------
(* The hook's claims *)

Finished(r) == pc[r] \in {"done", "raised"}

\* the non-empty ones of phrases, in order
NonEmpty(phrases) == SelectSeq(phrases, LAMBDA x : x # "")

\* the prefix C1 states for request r: the time fragment, then the non-empty
\* phrases among holiday, lunar, solar-term, almanac, platform, joined by " | "
C1_Joined(r) ==
    Join(" | ", <<"FaSongShiJian: " \o Strftime(Timeline[entry[r].clock])>>
                    \o NonEmpty(<<frame[r].holiday_info, frame[r].lunar_info,
                                  frame[r].solar_term_info, frame[r].almanac_info,
                                  frame[r].platform_info>>))

\* every accessor of the event of r answers
WellFormedEvent(r) == event[r].raises = "none" /\ event[r].message_obj # "missing"

\* C1: for every combination of the toggles and every event, one invocation of
\* the hook sets the prompt to "[" + J + "]\n" + the prompt as it was before;
\* a disabled phrase is empty, and with every optional feature disabled the
\* prefix is exactly "[发送时间: <timestamp>]".  (Read in the claim's favour:
\* "every event" is every event whose accessors answer.)
C1_PromptRewritten ==
    \A r \in Requests :
        (Finished(r) /\ WellFormedEvent(r))
            => /\ req_prompt[r] = "[" \o C1_Joined(r) \o "]\n" \o entry[r].prompt
               /\ ~config.enable_holiday => frame[r].holiday_info = ""
               /\ ~config.enable_lunar => frame[r].lunar_info = ""
               /\ ~config.enable_solar_term => frame[r].solar_term_info = ""
               /\ ~config.enable_almanac => frame[r].almanac_info = ""
               /\ ~config.enable_platform => frame[r].platform_info = ""
               /\ (~config.enable_holiday /\ ~config.enable_lunar /\ ~config.enable_solar_term
                       /\ ~config.enable_almanac /\ ~config.enable_platform)
                      => req_prompt[r] = "[FaSongShiJian: " \o Strftime(Timeline[entry[r].clock])
                                             \o "]\n" \o entry[r].prompt

\* what the code does achieve: C1's prompt on every invocation that returns
HookCompositionWhenReturned ==
    \A r \in Requests :
        pc[r] = "done"
            => /\ req_prompt[r] = "[" \o C1_Joined(r) \o "]\n" \o entry[r].prompt
               /\ ~config.enable_holiday => frame[r].holiday_info = ""
               /\ ~config.enable_lunar => frame[r].lunar_info = ""
               /\ ~config.enable_solar_term => frame[r].solar_term_info = ""
               /\ ~config.enable_almanac => frame[r].almanac_info = ""
               /\ ~config.enable_platform => frame[r].platform_info = ""

\* the computation of a phrase of request r fails: a dependency is missing, a
\* calendar lookup or the lunar conversion raises, an accessor of the event
\* raises, or the group-info fetch raises
HolidayFails(r) ==
    /\ config.enable_holiday /\ config.holiday_country = "CN" /\ CHINESE_CALENDAR_AVAILABLE
    /\ CalendarRaises(calendar_cn(Timeline[entry[r].clock]))

LunarFails(r) ==
    config.enable_lunar
        /\ (~LUNAR_CALENDAR_AVAILABLE \/ Solar2Lunar(Timeline[entry[r].clock]).exc # "")

SolarTermFails(r) == config.enable_solar_term /\ ~LUNAR_CALENDAR_AVAILABLE

EventAccessFails(r) ==
    config.enable_platform /\ (event[r].raises # "none" \/ event[r].message_obj = "missing")

FetchFails(r) == frame[r].fetch_raised

\* C2: whenever the computation of a phrase fails, that phrase is empty, the
\* others are still included, the hook still rewrites the prompt and no
\* exception leaves the hook.  (A failed fetch empties the group-name fragment.)
C2_FaultIsolated ==
    \A r \in Requests :
        (Finished(r) /\ (HolidayFails(r) \/ LunarFails(r) \/ SolarTermFails(r)
                             \/ EventAccessFails(r) \/ FetchFails(r)))
            => /\ pc[r] = "done"
               /\ frame[r].exc = ""
               /\ req_prompt[r] = "[" \o C1_Joined(r) \o "]\n" \o entry[r].prompt
               /\ HolidayFails(r) => frame[r].holiday_info = ""
               /\ LunarFails(r) => frame[r].lunar_info = ""
               /\ SolarTermFails(r) => frame[r].solar_term_info = ""
               /\ EventAccessFails(r) => frame[r].platform_info = ""

\* what the code does isolate: the lunar conversion, the missing libraries and
\* the group-info fetch
IsolatedFaults ==
    \A r \in Requests :
        (Finished(r) /\ ~HolidayFails(r) /\ ~EventAccessFails(r))
            => /\ pc[r] = "done"
               /\ LunarFails(r) => frame[r].lunar_info = ""
               /\ SolarTermFails(r) => frame[r].solar_term_info = ""

\* the media flags of the message of e, as the claim's "any media flags"
C4_MediaFlags(e) ==
    IF e.message_obj = "present" /\ e.has_message THEN MediaFlags(e.message) ELSE <<>>

\* C4: in a group chat with the platform feature enabled, when the awaited
\* group-info fetch raises, the platform phrase is "平台: <name>", "群聊" and the
\* media flags, with no "群名: .." fragment; the fetch was made once, the hook
\* returns, and the phrase is the last fragment of the prefix.
C4_GroupFetchFailure ==
    \A r \in Requests :
        (frame[r].kind = "hook" /\ frame[r].fetch_raised)
            => /\ config.enable_platform
               /\ pc[r] = "done"
               /\ frame[r].exc = ""
               /\ frame[r].fetches = 1
               /\ frame[r].platform_info =
                      Join(", ", <<"PingTai: " \o PLATFORM_DISPLAY_NAMES(event[r].platform_name),
                                   "QunLiao">> \o C4_MediaFlags(event[r]))
               /\ frame[r].perception_parts[Len(frame[r].perception_parts)] = frame[r].platform_info
               /\ req_prompt[r] = Rewrite(frame[r].perception_parts, entry[r].prompt)

\* the fetch of a group chat carrying an image, a voice clip and a video raised
C4_Witness ==
    /\ frame["r1"].kind = "hook" /\ frame["r1"].fetch_raised
    /\ pc["r1"] = "done"
    /\ event["r1"].message_type = "GROUP_MESSAGE"
    /\ frame["r1"].platform_info = "PingTai: QQ, QunLiao, HanTuPian, HanYuYin, HanShiPin"

\* the hook run alone, from entry to end, on event e at instant t with prompt p
RunAlone(e, t, p) ==
    LET begun == HookBegin(e, t, p)
    IN  IF begun.status = "await" THEN HookResume(e, begun.frame) ELSE begun

\* C10, the final state: when both invocations have returned, each prompt is
\* the prefix computed from the request's own event and its own entry
\* timestamp, once, before the request's own prior prompt
C10_OwnAnnotation ==
    (\A r \in Requests : pc[r] = "done")
        => \A r \in Requests :
               LET alone == RunAlone(event[r], Timeline[entry[r].clock], entry[r].prompt)
               IN  /\ alone.status = "done"
                   /\ frame[r].current_time = Timeline[entry[r].clock]
                   /\ req_prompt[r] = "[" \o Join(" | ", alone.frame.perception_parts)
                                          \o "]\n" \o entry[r].prompt

\* C10: under any interleaving of two invocations on distinct requests, each
\* suspending only at the awaited fetch, no step changes the configuration
\* (time zone, toggles, holiday country), and when both have returned each
\* prompt carries exactly its own annotation (C10_OwnAnnotation).
C10_NoSharedState ==
    /\ [](C10_OwnAnnotation)
    /\ [][/\ config' = config
          /\ CHINESE_CALENDAR_AVAILABLE' = CHINESE_CALENDAR_AVAILABLE
          /\ LUNAR_CALENDAR_AVAILABLE' = LUNAR_CALENDAR_AVAILABLE]_vars

\* both returned, the second having entered at a later instant while the
\* first was suspended at its fetch
C10_Witness ==
    /\ \A r \in Requests : pc[r] = "done"
    /\ entry["r2"].overlapped
    /\ entry["r1"].clock < entry["r2"].clock
    /\ frame["r1"].fetches = 1 /\ frame["r2"].fetches = 1
    /\ req_prompt["r1"] # req_prompt["r2"]

====
